---- MODULE Spec2Model ----
\* The health/availability subsystem of the proxy: the HealthChecker of
\* src/core/monitoring.ts (probe cycles, per-target failure accounting and
\* circuit breaker), the target selection of src/core/proxy.ts
\* (findAvailableUrl) and the Metrics registry they write into.
\*
\* Time is the value of Date.now(), in milliseconds, counted from the moment
\* the process is constructed.  The clock advances in steps of ClockStep; every
\* configured duration of the model is a multiple of it.
EXTENDS Integers, Sequences, FiniteSets, TLC

VARIABLES
    now,                      \* Date.now()
    config,                   \* the loaded configuration (never changes)
    backend,                  \* environment: what each backend answers to a probe
    healthStatus,             \* HealthChecker.healthStatus (a Map, in insertion order)
    checkInterval,            \* HealthChecker.checkInterval (timer handle or null)
    failureCount,             \* HealthChecker.failureCount
    circuitBreakerOpenUntil,  \* HealthChecker.circuitBreakerOpenUntil
    timers,                   \* the event loop's live setInterval timers: handle -> next firing
    starts,                   \* number of start() calls so far (the timer handles issued)
    inflight,                 \* probes awaiting their axios.get
    lastAttempt,              \* history: per target, when its last probe was issued
    gauges,                   \* Metrics.gauges
    histograms,               \* Metrics.histograms
    counters,                 \* Metrics.counters
    selected,                 \* the value returned by the last findAvailableUrl() call
    response,                 \* the last answer of GET /health
    written,                  \* history: the writes into Metrics since its last reset()
    startedAt,                \* history: when start() was first called
    stoppedAt,                \* history: when the backends were shut down
    reply,                    \* what the proxy did with the last proxied request
    validation,               \* the list given to validateUrls and its result
    pending,                  \* proxied requests awaiting the continuation of their await
    exported                  \* the last answer of GET /metrics

vars == <<now, config, backend, healthStatus, checkInterval, failureCount,
          circuitBreakerOpenUntil, timers, starts, inflight, lastAttempt,
          gauges, histograms, counters, selected, response, written,
          startedAt, stoppedAt, reply, validation, pending, exported>>

checkerVars == <<healthStatus, failureCount, circuitBreakerOpenUntil>>
metricVars == <<gauges, histograms, counters, written>>
\* What only the request handlers and the test scenarios change.
requestVars == <<pending, exported>>
auxVars == <<response, stoppedAt, reply, validation, requestVars>>

-----------------------------------------------------------------------------
\* Bounds of the model.

\* The clock stops after MaxTicks steps.
MaxTicks == 5
\* In the specification with fairness the clock stops after LiveMaxTicks
\* steps, and the environment (the backends, the caller of stop) acts only
\* during the first SettleTicks of them.
LiveMaxTicks == 11
SettleTicks == 2
\* Math.random() takes the values k / RandomResolution, 0 <= k < RandomResolution.
RandomResolution == 4
\* The callers of Metrics add to one counter at most MaxIncrements times, and
\* record at most MaxSamples samples one by one into a fresh histogram or after
\* a loop of insertions, between two resets.
MaxIncrements == 3
MaxSamples == 3
\* The proxy receives at most MaxRequests proxied requests.
MaxRequests == 1
\* start() is called at most MaxStarts times.
MaxStarts == 2
\* validateUrls is given lists of at most MaxUrls entries.
MaxUrls == 2
\* At most MaxPipelined proxied requests arrive on pipelined connections.
MaxPipelined == 2

-----------------------------------------------------------------------------
\* Program constants and configuration.

\* recordFailure: "Open circuit for 60 seconds".
Cooldown == 60000
\* Metrics.recordHistogram keeps the last 1000 entries.
MaxHistogramEntries == 1000
\* config.maxHealthyStatus (MAX_HEALTHY_STATUS, default "499").
DefaultMaxHealthyStatus == 499

\* One step of the clock, in milliseconds: a quarter of the cooldown.
ClockStep == Cooldown \div 4

\* The configurations the model is run with.  TARGET_URLS is validated to be a
\* non-empty list of distinct host:port entries; TIMEOUT is validated to
\* 100..30000; HEALTH_CHECK_INTERVAL (default 30000) is not validated, and in
\* OverlapConfigs it is shorter than the timeout, so that probes of successive
\* cycles are in flight together; CIRCUIT_BREAKER_THRESHOLD defaults to 3.
Config(ts, interval, timeout, threshold) ==
    [targets |-> ts,
     healthCheckInterval |-> interval,
     timeout |-> timeout,
     circuitBreakerThreshold |-> threshold,
     maxHealthyStatus |-> DefaultMaxHealthyStatus]

OverlapConfigs == {Config(<<"A">>, 15000, 30000, threshold) : threshold \in {1, 2}}
DefaultConfigs == {Config(<<"A">>, 30000, 15000, 3)}
\* The interval equal to the timeout, the configuration of the repository's
\* tests: a probe's timeout and the next cycle fall on the same instant.
TieConfigs == {Config(<<"A">>, 15000, 15000, threshold) : threshold \in {1, 2}}
PoolConfigs == {Config(<<"A", "B">>, 30000, 15000, 1)}
\* A timeout of two clock steps, with the default MAX_HEALTHY_STATUS and with
\* MAX_HEALTHY_STATUS=299.
StatusConfigs ==
    {Config(<<"A">>, 30000, 30000, 3),
     [Config(<<"A">>, 30000, 30000, 3) EXCEPT !.maxHealthyStatus = 299]}

\* config.targets as a set.
Targets == {config.targets[i] : i \in DOMAIN config.targets}
AllTargets == {"A", "B"}

\* What a backend does with a probe: 0 = no answer (connection refused, or
\* nothing until the timeout), otherwise the HTTP status it answers with.
Answers == {0, 200, 500}
\* The same with the statuses on either side of maxHealthyStatus.
StatusAnswers == Answers \cup {404, 499, 503}

\* checkInterval is a timer handle (1, 2, ... in the order start() created them)
\* or null.
NoTimer == 0
\* findAvailableUrl returns a url or null; before any call nothing was returned.
null == "null"
NoCall == "-"
\* The time of an event that has not happened.
Never == -1

-----------------------------------------------------------------------------
\* JavaScript Maps.  failureCount, circuitBreakerOpenUntil and the Metrics maps
\* are only read by key: functions whose domain is the set of keys present.

EmptyMap == [k \in {} |-> 0]
MapHas(m, k) == k \in DOMAIN m
MapSet(m, k, v) == [x \in (DOMAIN m) \cup {k} |-> IF x = k THEN v ELSE m[x]]
MapDelete(m, k) == [x \in (DOMAIN m) \ {k} |-> m[x]]
\* map.get(k) || d
MapGetOr(m, k, d) == IF MapHas(m, k) THEN m[k] ELSE d

\* healthStatus is iterated (values()), so it keeps the Map's insertion order:
\* a sequence of TargetHealth records, keyed by their url.
HealthIndex(url) == {i \in DOMAIN healthStatus : healthStatus[i].url = url}
HealthHas(url) == HealthIndex(url) # {}
HealthGet(url) == healthStatus[CHOOSE i \in HealthIndex(url) : TRUE]
\* Variant of Map.set that adds an entry whether or not the key is present.
HealthSetAppends(hs, rec) == Append(hs, rec)

\* Variant that assigns the new fields onto the stored object, keeping the
\* fields the new value does not have.
HealthSetMerges(hs, rec) ==
    LET Merge(old) == [f \in DOMAIN old \cup DOMAIN rec |->
                          IF f \in DOMAIN rec THEN rec[f] ELSE old[f]]
    IN  IF \E i \in DOMAIN hs : hs[i].url = rec.url
        THEN [i \in DOMAIN hs |-> IF hs[i].url = rec.url THEN Merge(hs[i]) ELSE hs[i]]
        ELSE Append(hs, rec)

\* Map.set: replaces the value of a present key in place, appends a new key.
HealthSet(hs, rec) ==
    IF \E i \in DOMAIN hs : hs[i].url = rec.url
    THEN [i \in DOMAIN hs |-> IF hs[i].url = rec.url THEN rec ELSE hs[i]]
    ELSE Append(hs, rec)

-----------------------------------------------------------------------------
\* Metrics (src/utils/metrics.ts).

\* Variant of incrementCounter that stores the value instead of adding it.
incrementCounterOverwrites(cs, name, value) == MapSet(cs, name, value)

incrementCounter(cs, name, value) ==
    LET current == MapGetOr(cs, name, 0)
    IN  MapSet(cs, name, current + value)

\* Variants of recordHistogram: without the eviction, and evicting as soon as
\* the series holds 1000 entries.
recordHistogramUnbounded(hs, name, value) ==
    MapSet(hs, name, Append(MapGetOr(hs, name, <<>>), [timestamp |-> now, value |-> value]))

recordHistogramEvictsEarly(hs, name, value) ==
    LET pushed == Append(MapGetOr(hs, name, <<>>), [timestamp |-> now, value |-> value])
        entries == IF Len(pushed) >= MaxHistogramEntries THEN Tail(pushed) ELSE pushed
    IN  MapSet(hs, name, entries)

recordHistogram(hs, name, value) ==
    LET pushed == Append(MapGetOr(hs, name, <<>>), [timestamp |-> now, value |-> value])
        entries == IF Len(pushed) > MaxHistogramEntries THEN Tail(pushed) ELSE pushed
    IN  MapSet(hs, name, entries)

setGauge(gs, name, value) == MapSet(gs, name, value)

\* The values a getter returns besides numbers and objects.  A number that
\* may be undefined is returned as [value |-> number], so that the two compare.
undefined == [absent |-> "undefined"]
nullStats == [absent |-> "null"]

getCounter(name) == MapGetOr(counters, name, 0)

getGauge(name) == IF MapHas(gauges, name) THEN [value |-> gauges[name]] ELSE undefined

\* values.sort((a, b) => a - b): ascending numeric order.
RECURSIVE SortAscending(_)
SortAscending(values) ==
    IF Len(values) <= 1 THEN values
    ELSE LET pivot == values[(Len(values) + 1) \div 2]
         IN  SortAscending(SelectSeq(values, LAMBDA v : v < pivot))
             \o SelectSeq(values, LAMBDA v : v = pivot)
             \o SortAscending(SelectSeq(values, LAMBDA v : v > pivot))

\* values.reduce((a, b) => a + b, 0), over values[lo..hi].
RECURSIVE SumRange(_, _, _)
SumRange(values, lo, hi) ==
    IF lo > hi THEN 0
    ELSE IF lo = hi THEN values[lo]
    ELSE LET mid == (lo + hi) \div 2
         IN  SumRange(values, lo, mid) + SumRange(values, mid + 1, hi)
reduceSum(values) == SumRange(values, 1, Len(values))

\* Variant that returns the sum undivided.
DivideByOne(sum, count) == [num |-> sum, den |-> 1]

\* sum / count, kept exact: the fraction in lowest terms (JavaScript rounds it
\* to the nearest double).
RECURSIVE GCD(_, _)
GCD(a, b) == IF b = 0 THEN a ELSE GCD(b, a % b)
Abs(a) == IF a < 0 THEN -a ELSE a
Divide(sum, count) ==
    LET d == GCD(Abs(sum), count)
    IN  [num |-> sum \div d, den |-> count \div d]

\* Variant of the p95 index one rank lower where count * 0.95 is whole.
P95IndexBelow(count) == (count * 95 - 1) \div 100

\* Math.floor(count * 0.95).  For 1 <= count <= 1000 the double product
\* rounds to the exact one whenever that is whole, so the floor is that of
\* count * 95 / 100.
P95Index(count) == (count * 95) \div 100

getHistogramStats(name) ==
    IF ~MapHas(histograms, name) \/ Len(histograms[name]) = 0
    THEN nullStats
    ELSE LET entries == histograms[name]
             values == SortAscending([i \in DOMAIN entries |-> entries[i].value])
             count == Len(values)
             sum == reduceSum(values)
         IN  [count |-> count,
              avg |-> Divide(sum, count),
              min |-> values[1],
              max |-> values[count],
              p95 |-> values[P95Index(count) + 1]]

getAllMetrics ==
    [counters |-> counters,
     gauges |-> gauges,
     histograms |-> [name \in DOMAIN histograms |-> getHistogramStats(name)]]

\* The history of the writes, per kind of metric: the values added to each
\* counter and recorded into each histogram, in the order of the calls, and
\* the names of the gauges set.
NothingWritten == [counters |-> EmptyMap, histograms |-> EmptyMap, gauges |-> {}]
WroteCounter(w, name, value) ==
    [w EXCEPT !.counters = MapSet(@, name, Append(MapGetOr(@, name, <<>>), value))]
WroteHistogram(w, name, value) ==
    [w EXCEPT !.histograms = MapSet(@, name, Append(MapGetOr(@, name, <<>>), value))]
WroteGauge(w, name) == [w EXCEPT !.gauges = @ \cup {name}]
WroteGauges(w) == WroteGauge(WroteGauge(w, "proxy_healthy_targets"), "proxy_total_targets")

-----------------------------------------------------------------------------
\* HealthChecker (src/core/monitoring.ts).

\* openUntil ? Date.now() < openUntil : false
isCircuitOpen(url) ==
    IF MapHas(circuitBreakerOpenUntil, url) /\ circuitBreakerOpenUntil[url] # 0
    THEN now < circuitBreakerOpenUntil[url]
    ELSE FALSE

\* (this.failureCount.get(url) || 0)
FailureCount(url) == MapGetOr(failureCount, url, 0)

\* Variants of recordSuccess that forget one of its two deletions.
recordSuccessKeepsOpenUntil(url) ==
    /\ failureCount' = MapDelete(failureCount, url)
    /\ circuitBreakerOpenUntil' = circuitBreakerOpenUntil

recordSuccessKeepsCount(url) ==
    /\ failureCount' = failureCount
    /\ circuitBreakerOpenUntil' = MapDelete(circuitBreakerOpenUntil, url)

recordSuccess(url) ==
    /\ failureCount' = MapDelete(failureCount, url)
    /\ circuitBreakerOpenUntil' = MapDelete(circuitBreakerOpenUntil, url)

\* Variants of recordFailure with the comparison to the threshold off by one.
recordFailureAboveThreshold(url) ==
    LET failures == FailureCount(url) + 1
    IN  /\ failureCount' = MapSet(failureCount, url, failures)
        /\ circuitBreakerOpenUntil' =
               IF failures > config.circuitBreakerThreshold
               THEN MapSet(circuitBreakerOpenUntil, url, now + Cooldown)
               ELSE circuitBreakerOpenUntil

recordFailureBelowThreshold(url) ==
    LET failures == FailureCount(url) + 1
    IN  /\ failureCount' = MapSet(failureCount, url, failures)
        /\ circuitBreakerOpenUntil' =
               IF failures >= config.circuitBreakerThreshold - 1
               THEN MapSet(circuitBreakerOpenUntil, url, now + Cooldown)
               ELSE circuitBreakerOpenUntil

\* Variant that opens the breaker of every target.
recordFailureOpensAll(url) ==
    LET failures == FailureCount(url) + 1
    IN  /\ failureCount' = MapSet(failureCount, url, failures)
        /\ circuitBreakerOpenUntil' =
               IF failures >= config.circuitBreakerThreshold
               THEN [target \in AllTargets |-> now + Cooldown]
               ELSE circuitBreakerOpenUntil

recordFailure(url) ==
    LET failures == FailureCount(url) + 1
    IN  /\ failureCount' = MapSet(failureCount, url, failures)
        /\ circuitBreakerOpenUntil' =
               IF failures >= config.circuitBreakerThreshold
               THEN MapSet(circuitBreakerOpenUntil, url, now + Cooldown)
               ELSE circuitBreakerOpenUntil

\* Variants of the skip: never skipping, and skipping for as long as an
\* openUntil is stored, whatever the time.
checkTargetNeverSkips(url) == FALSE
checkTargetSkipsForever(url) == MapHas(circuitBreakerOpenUntil, url)

\* checkTarget, up to its await: a target whose circuit is open is skipped.
checkTargetSkips(url) == isCircuitOpen(url)

\* Variant that accepts no status.
validateStatusRejectsAll(status) == FALSE

\* Variant with a strict comparison.
validateStatusBelow(status) == status < config.maxHealthyStatus

\* validateStatus: (status) => status <= config.maxHealthyStatus
validateStatus(status) == status <= config.maxHealthyStatus

\* The probes one checkAllTargets() call issues: config.targets.map(checkTarget),
\* each checkTarget running synchronously up to its axios.get.
Probe(url, cycle) == [url |-> url, cycle |-> cycle, startTime |-> now]
ProbedTargets == {url \in Targets : ~checkTargetSkips(url)}

\* The tail of checkAllTargets, after Promise.allSettled.
HealthyCount(hs) == Len(SelectSeq(hs, LAMBDA h : h.healthy))
UpdateGauges(hs) ==
    setGauge(setGauge(gauges, "proxy_healthy_targets", HealthyCount(hs)),
             "proxy_total_targets", Len(config.targets))

\* checkAllTargets, run by timer `handle`: every probe is issued at once; when
\* no probe is issued the allSettled continuation follows before any other event.
checkAllTargets(handle) ==
    /\ inflight' = inflight \cup {Probe(url, handle) : url \in ProbedTargets}
    /\ lastAttempt' = [url \in Targets |->
                          IF url \in ProbedTargets THEN now ELSE lastAttempt[url]]
    /\ gauges' = IF ProbedTargets = {} THEN UpdateGauges(healthStatus) ELSE gauges
    /\ written' = IF ProbedTargets = {} THEN WroteGauges(written) ELSE written
    /\ UNCHANGED <<checkerVars, histograms, counters>>

\* The probes of p's cycle that have not settled yet.
Siblings(p) ==
    {q \in inflight : q.cycle = p.cycle /\ q.startTime = p.startTime /\ q # p}

\* Variant that refreshes the gauges whenever a probe settles.
SettleEager(p) ==
    /\ inflight' = inflight \ {p}
    /\ gauges' = UpdateGauges(healthStatus')

\* A settled probe leaves the cycle; the last one to settle resumes
\* checkAllTargets after its await, which refreshes the gauges.
Settle(p) ==
    /\ inflight' = inflight \ {p}
    /\ gauges' = IF Siblings(p) = {} THEN UpdateGauges(healthStatus') ELSE gauges

\* The history of the writes a settling probe makes, w being the history of
\* those it made before resuming checkAllTargets.
SettleWrites(p, w) == IF Siblings(p) = {} THEN WroteGauges(w) ELSE w

Elapsed(p) == now - p.startTime

\* The backend answers the probe (with some status) rather than not at all.
Answering(url) == backend[url] # 0

\* Variant of the try branch that records no latency sample.
ProbeSucceedsUnrecorded(p) ==
    /\ p \in inflight
    /\ Answering(p.url)
    /\ validateStatus(backend[p.url])
    /\ Elapsed(p) < config.timeout
    /\ healthStatus' = HealthSet(healthStatus,
                             [url |-> p.url, healthy |-> TRUE,
                              responseTime |-> Elapsed(p), lastCheck |-> now])
    /\ recordSuccess(p.url)
    /\ written' = SettleWrites(p, written)
    /\ Settle(p)
    /\ UNCHANGED <<now, config, backend, checkInterval, timers, starts, lastAttempt,
                   histograms, counters, selected, startedAt, auxVars>>

\* checkTarget after the await, the try branch.
ProbeSucceeds(p) ==
    /\ p \in inflight
    /\ Answering(p.url)
    /\ validateStatus(backend[p.url])
    /\ Elapsed(p) < config.timeout
    /\ LET responseTime == Elapsed(p)
       IN  /\ healthStatus' = HealthSet(healthStatus,
                                  [url |-> p.url, healthy |-> TRUE,
                                   responseTime |-> responseTime, lastCheck |-> now])
           /\ recordSuccess(p.url)
           /\ histograms' = recordHistogram(histograms, "proxy_target_response_time",
                                            responseTime)
           /\ written' = SettleWrites(p, WroteHistogram(written,
                                          "proxy_target_response_time", responseTime))
    /\ Settle(p)
    /\ UNCHANGED <<now, config, backend, checkInterval, timers, starts,
                   lastAttempt, counters, selected, startedAt, auxVars>>

\* Why axios.get rejects: no answer, the timeout, or a status that
\* validateStatus refuses.
ProbeError(p) ==
    IF Elapsed(p) >= config.timeout THEN {"timeout"}
    ELSE IF ~Answering(p.url) THEN {"ECONNREFUSED"}
    ELSE IF ~validateStatus(backend[p.url]) THEN {"status"}
    ELSE {}

\* Variant in which the rejection leaves checkTarget and checkAllTargets: the
\* cycle is abandoned before its gauges, and the timer with it.
ProbeFailsPropagates(p) ==
    /\ p \in inflight
    /\ ProbeError(p) # {}
    /\ inflight' = {q \in inflight : q.cycle # p.cycle \/ q.startTime # p.startTime}
    /\ timers' = EmptyMap
    /\ checkInterval' = NoTimer
    /\ UNCHANGED <<now, config, backend, checkerVars, starts, lastAttempt,
                   metricVars, selected, startedAt, auxVars>>

\* checkTarget after the await, the catch branch.
ProbeFails(p) ==
    /\ p \in inflight
    /\ \E error \in ProbeError(p) :
           healthStatus' = HealthSet(healthStatus,
                               [url |-> p.url, healthy |-> FALSE,
                                lastCheck |-> now, error |-> error])
    /\ recordFailure(p.url)
    /\ Settle(p)
    /\ written' = SettleWrites(p, written)
    /\ UNCHANGED <<now, config, backend, checkInterval, timers, starts,
                   lastAttempt, histograms, counters, selected, startedAt, auxVars>>

\* Variant of start that only schedules the recurring cycles.
startSkipsFirstCycle ==
    /\ LET handle == starts + 1
       IN  /\ timers' = MapSet(timers, handle, now + config.healthCheckInterval)
           /\ checkInterval' = handle
           /\ starts' = handle
    /\ startedAt' = IF starts = 0 THEN now ELSE startedAt
    /\ UNCHANGED <<now, config, backend, checkerVars, inflight, lastAttempt,
                   metricVars, selected, auxVars>>

\* Variant of stop that also abandons the probes in flight.
stopCancelsProbes ==
    /\ starts > 0
    /\ timers' = EmptyMap
    /\ checkInterval' = NoTimer
    /\ inflight' = {}
    /\ UNCHANGED <<now, config, backend, checkerVars, starts, lastAttempt,
                   metricVars, selected, startedAt, auxVars>>

\* Variant of stop that clears every timer ever created.
stopClearsEveryTimer ==
    /\ starts > 0
    /\ timers' = EmptyMap
    /\ checkInterval' = NoTimer
    /\ UNCHANGED <<now, config, backend, checkerVars, starts, inflight,
                   lastAttempt, metricVars, selected, startedAt, auxVars>>

\* Variant of stop that forgets the handle without clearInterval.
stopKeepsTimer ==
    /\ starts > 0
    /\ checkInterval' = NoTimer
    /\ UNCHANGED <<now, config, backend, checkerVars, timers, starts, inflight,
                   lastAttempt, metricVars, selected, startedAt, auxVars>>

start ==
    /\ LET handle == starts + 1
       IN  /\ checkAllTargets(handle)
           /\ timers' = MapSet(timers, handle, now + config.healthCheckInterval)
           /\ checkInterval' = handle
           /\ starts' = handle
    /\ startedAt' = IF starts = 0 THEN now ELSE startedAt
    /\ UNCHANGED <<now, config, backend, selected, auxVars>>

stop ==
    /\ starts > 0
    /\ IF checkInterval # NoTimer
       THEN /\ timers' = MapDelete(timers, checkInterval)
            /\ checkInterval' = NoTimer
       ELSE UNCHANGED <<timers, checkInterval>>
    /\ UNCHANGED <<now, config, backend, checkerVars, starts, inflight,
                   lastAttempt, metricVars, selected, startedAt, auxVars>>

\* The setInterval callback of timer `handle`.
TimerFires(handle) ==
    /\ MapHas(timers, handle)
    /\ timers[handle] <= now
    /\ checkAllTargets(handle)
    /\ timers' = [timers EXCEPT ![handle] = @ + config.healthCheckInterval]
    /\ UNCHANGED <<now, config, backend, checkInterval, starts, selected,
                   startedAt, auxVars>>

\* Variant of getHealthyTargets without the filter.
getAllTargets == [i \in DOMAIN healthStatus |-> healthStatus[i].url]

\* Variant that takes every configured target for healthy until one is probed.
getHealthyTargetsOptimistic ==
    IF healthStatus = <<>>
    THEN config.targets
    ELSE LET healthy == SelectSeq(healthStatus, LAMBDA health : health.healthy)
         IN  [i \in DOMAIN healthy |-> healthy[i].url]

getHealthyTargets ==
    LET healthy == SelectSeq(healthStatus, LAMBDA health : health.healthy)
    IN  [i \in DOMAIN healthy |-> healthy[i].url]

getHealthStatus == healthStatus

\* The tri-state summary, from the number of healthy records and the number of
\* records.
OverallStatus(healthyCount, totalCount) ==
    IF healthyCount = totalCount THEN "healthy"
    ELSE IF healthyCount > 0 THEN "degraded"
    ELSE "unhealthy"

getOverallHealth ==
    LET targets == getHealthStatus
        healthyCount == Len(SelectSeq(targets, LAMBDA t : t.healthy))
        totalCount == Len(targets)
    IN  [status |-> OverallStatus(healthyCount, totalCount),
         details |-> [healthy_targets |-> healthyCount,
                      total_targets |-> totalCount,
                      targets |-> targets]]

-----------------------------------------------------------------------------
\* GET /health (handleHealthEndpoint).

HTTP_STATUS == [OK |-> 200, SERVICE_UNAVAILABLE |-> 503, INTERNAL_ERROR |-> 500]
\* Before any GET /health nothing was answered.
NoResponse == [statusCode |-> 0]

\* Variant that also refuses a degraded pool.
StatusCodeOnlyHealthy(health) ==
    IF health.status # "healthy" THEN HTTP_STATUS.SERVICE_UNAVAILABLE ELSE HTTP_STATUS.OK

StatusCode(health) ==
    IF health.status = "unhealthy" THEN HTTP_STATUS.SERVICE_UNAVAILABLE ELSE HTTP_STATUS.OK

\* JSON.stringify(health); of each TargetHealth in details.targets the answer
\* kept here is its url and its healthy flag.
Body(health) ==
    [status |-> health.status,
     details |-> [healthy_targets |-> health.details.healthy_targets,
                  total_targets |-> health.details.total_targets,
                  targets |-> [i \in DOMAIN health.details.targets |->
                                  [url |-> health.details.targets[i].url,
                                   healthy |-> health.details.targets[i].healthy]]]]

\* getOverallHealth has no await of its own and nothing in it throws: the
\* handler answers from the snapshot of the call, in the try branch.
HandleHealthEndpoint ==
    /\ LET health == getOverallHealth
       IN  response' = [statusCode |-> StatusCode(health), body |-> Body(health)]
    /\ UNCHANGED <<now, config, backend, checkerVars, checkInterval, timers,
                   starts, inflight, lastAttempt, metricVars, selected,
                   startedAt, stoppedAt, reply, validation, requestVars>>

\* GET /metrics (handleMetricsEndpoint): the registry's snapshot and the
\* summary of the configuration, in the try branch (nothing in it throws).  Of
\* the answer the counters, the gauges, the histogram statistics and
\* config_summary are kept; uptime_seconds, memory_usage and timestamp are
\* values of the process that nothing else reads.
HandleMetricsEndpoint ==
    /\ exported' = [statusCode |-> HTTP_STATUS.OK,
                    body |-> [counters |-> getAllMetrics.counters,
                              gauges |-> getAllMetrics.gauges,
                              histograms |-> getAllMetrics.histograms,
                              config_summary |->
                                  [targets_count |-> Len(config.targets),
                                   health_check_interval |-> config.healthCheckInterval,
                                   circuit_breaker_threshold |->
                                       config.circuitBreakerThreshold]]]
    /\ UNCHANGED <<now, config, backend, checkerVars, checkInterval, timers,
                   starts, inflight, lastAttempt, metricVars, selected,
                   startedAt, response, stoppedAt, reply, validation, pending>>

-----------------------------------------------------------------------------
\* The callers of Metrics (request handlers, tests).  Each call is synchronous:
\* it runs to its end before any other callback of the event loop.

\* Everything but the Metrics registry.
healthVars == <<now, config, backend, checkerVars, checkInterval, timers, starts,
                inflight, lastAttempt, selected, startedAt, auxVars>>

\* The names and values the callers use; "non_existent" is never written.
CounterNames == {"test_counter", "proxy_requests_total"}
GaugeNames == {"test_gauge"}
HistogramNames == {"test_histogram"}
MetricNames == CounterNames \cup GaugeNames \cup HistogramNames \cup {"non_existent"}
\* The arguments after the name: none (value defaults to 1) or the value.
IncrementArgs == {<<>>, <<-2>>}
GaugeValues == {0, 42}
Samples == {5, 10, 20}
\* The lengths of the insertion loops: 1..100 and 1..1500 as in the tests, and
\* 1..999, one short of the bound.
LoopLengths == {100, 999, 1500}

\* metrics.incrementCounter(name) or metrics.incrementCounter(name, value)
IncrementCounter(name, args) ==
    /\ Len(MapGetOr(written.counters, name, <<>>)) < MaxIncrements
    /\ LET value == IF args = <<>> THEN 1 ELSE args[1]
       IN  /\ counters' = incrementCounter(counters, name, value)
           /\ written' = WroteCounter(written, name, value)
    /\ UNCHANGED <<gauges, histograms, healthVars>>

\* metrics.setGauge(name, value)
SetGauge(name, value) ==
    /\ gauges' = setGauge(gauges, name, value)
    /\ written' = WroteGauge(written, name)
    /\ UNCHANGED <<counters, histograms, healthVars>>

\* How many values were recorded into the series since the last reset.
Recorded(name) == Len(MapGetOr(written.histograms, name, <<>>))

\* metrics.recordHistogram(name, value)
RecordHistogram(name, value) ==
    /\ \/ Recorded(name) < MaxSamples
       \/ \E n \in LoopLengths : n <= Recorded(name) /\ Recorded(name) < n + MaxSamples
    /\ histograms' = recordHistogram(histograms, name, value)
    /\ written' = WroteHistogram(written, name, value)
    /\ UNCHANGED <<counters, gauges, healthVars>>

\* for (let i = lo; i <= hi; i++) metrics.recordHistogram(name, i): the
\* calls for lo..mid are made (the map then has the key) before those for
\* mid+1..hi.
RECURSIVE recordRange(_, _, _, _)
recordRange(hs, name, lo, hi) ==
    IF lo > hi THEN hs
    ELSE IF lo = hi THEN recordHistogram(hs, name, lo)
    ELSE LET mid == (lo + hi) \div 2
             first == recordRange(hs, name, lo, mid)
         IN  IF MapHas(first, name) THEN recordRange(first, name, mid + 1, hi) ELSE first

\* The loop of the tests, on a series not written yet.
RecordLoop(name, n) ==
    /\ Recorded(name) = 0
    /\ histograms' = recordRange(histograms, name, 1, n)
    /\ written' = [written EXCEPT !.histograms = MapSet(@, name, [i \in 1..n |-> i])]
    /\ UNCHANGED <<counters, gauges, healthVars>>

\* Variant of reset that leaves the gauges.
ResetKeepsGauges ==
    /\ counters' = EmptyMap
    /\ histograms' = EmptyMap
    /\ written' = NothingWritten
    /\ UNCHANGED <<gauges, healthVars>>

\* metrics.reset()
Reset ==
    /\ counters' = EmptyMap
    /\ histograms' = EmptyMap
    /\ gauges' = EmptyMap
    /\ written' = NothingWritten
    /\ UNCHANGED healthVars

-----------------------------------------------------------------------------
\* Target selection (src/core/proxy.ts).

\* Variant that always takes the first healthy target.
RandomIndexFirst(k, length) == 0

\* Math.floor(Math.random() * healthyTargets.length), Math.random() = k / RandomResolution
RandomIndex(k, length) == (k * length) \div RandomResolution

findAvailableUrl(k) ==
    LET healthyTargets == getHealthyTargets
    IN  IF Len(healthyTargets) = 0
        THEN null
        ELSE healthyTargets[RandomIndex(k, Len(healthyTargets)) + 1]

FindAvailableUrl(k) ==
    /\ selected' = findAvailableUrl(k)
    /\ UNCHANGED <<now, config, backend, checkerVars, checkInterval, timers,
                   starts, inflight, lastAttempt, metricVars, startedAt, auxVars>>

-----------------------------------------------------------------------------
\* The request handler of startProxyServer, for a request that is neither
\* GET /health nor GET /metrics.  findAvailableUrl() runs synchronously inside
\* the call, and the continuation of the await is a microtask: it runs before
\* any timer or probe callback, so the handler is one step.

\* `proxy_requests_by_target.${targetUrl.replace(/[.:]/, '_')}`: the first
\* '.' or ':' of the url replaced (the names A and B have neither).
TargetCounter(url) ==
    CASE url = "A" -> "proxy_requests_by_target.A"
      [] url = "B" -> "proxy_requests_by_target.B"

\* The else branch: the answer 503, nothing forwarded.
NoTargetReply == [statusCode |-> HTTP_STATUS.SERVICE_UNAVAILABLE, target |-> null]
\* The catch branch: the answer 500.
ErrorReply == [statusCode |-> HTTP_STATUS.INTERNAL_ERROR, target |-> null]
\* proxy.web(req, res, {target}): the request is handed to the forwarder, the
\* handler itself writes no status.
Forwarded(targetUrl) == [statusCode |-> 0, target |-> targetUrl]

\* The handler with the counter and the reply its branch chose; the finally
\* block records the duration, Date.now() - startTime.
Handled(k, branchCounter, branchReply) ==
    /\ MapGetOr(counters, "proxy_requests_total", 0) < MaxRequests
    /\ selected' = findAvailableUrl(k)
    /\ counters' = incrementCounter(incrementCounter(counters, "proxy_requests_total", 1),
                                    branchCounter, 1)
    /\ reply' = branchReply
    /\ histograms' = recordHistogram(histograms, "proxy_request_duration_ms", now - now)
    /\ written' = WroteHistogram(WroteCounter(WroteCounter(written,
                                                 "proxy_requests_total", 1),
                                             branchCounter, 1),
                                 "proxy_request_duration_ms", now - now)
    /\ UNCHANGED <<now, config, backend, checkerVars, checkInterval, timers, starts,
                   inflight, lastAttempt, gauges, startedAt, response, stoppedAt,
                   validation, requestVars>>

\* Variant that treats the empty healthy set as an exception: the catch branch.
HandleRequestThrows(k) ==
    LET targetUrl == findAvailableUrl(k)
    IN  IF targetUrl # null
        THEN Handled(k, TargetCounter(targetUrl), Forwarded(targetUrl))
        ELSE Handled(k, "proxy_requests_failed_error", ErrorReply)

HandleRequest(k) ==
    LET targetUrl == findAvailableUrl(k)
    IN  IF targetUrl # null
        THEN Handled(k, TargetCounter(targetUrl), Forwarded(targetUrl))
        ELSE Handled(k, "proxy_requests_failed_no_target", NoTargetReply)

\* The same handler in its two parts, for requests that arrive together (a
\* pipelined connection delivers several requests in one callback of the
\* parser): the part up to the await runs for each of them before any
\* continuation.  findAvailableUrl() has no await of its own, so the target is
\* chosen inside the call, at the arrival.

\* Variant that does not count the arrival.
RequestArrivesUncounted(k) ==
    /\ Len(pending) < MaxPipelined
    /\ selected' = findAvailableUrl(k)
    /\ pending' = Append(pending, [targetUrl |-> findAvailableUrl(k), startTime |-> now])
    /\ UNCHANGED <<now, config, backend, checkerVars, checkInterval, timers, starts,
                   inflight, lastAttempt, metricVars, startedAt, response,
                   stoppedAt, reply, validation, exported>>

\* Variant that probes the targets on demand when none is known healthy.
RequestArrivesProbing(k) ==
    /\ getCounter("proxy_requests_total") < MaxPipelined
    /\ selected' = findAvailableUrl(k)
    /\ counters' = incrementCounter(counters, "proxy_requests_total", 1)
    /\ written' = WroteCounter(written, "proxy_requests_total", 1)
    /\ pending' = Append(pending, [targetUrl |-> findAvailableUrl(k), startTime |-> now])
    /\ inflight' = IF findAvailableUrl(k) = null
                   THEN inflight \cup {Probe(config.targets[1], 0)}
                   ELSE inflight
    /\ UNCHANGED <<now, config, backend, checkerVars, checkInterval, timers, starts,
                   lastAttempt, gauges, histograms, startedAt, response,
                   stoppedAt, reply, validation, exported>>

\* startTime, the counter of line 61 and the call of findAvailableUrl.
RequestArrives(k) ==
    /\ getCounter("proxy_requests_total") < MaxPipelined
    /\ selected' = findAvailableUrl(k)
    /\ counters' = incrementCounter(counters, "proxy_requests_total", 1)
    /\ written' = WroteCounter(written, "proxy_requests_total", 1)
    /\ pending' = Append(pending, [targetUrl |-> findAvailableUrl(k), startTime |-> now])
    /\ UNCHANGED <<now, config, backend, checkerVars, checkInterval, timers, starts,
                   inflight, lastAttempt, gauges, histograms, startedAt, response,
                   stoppedAt, reply, validation, exported>>

\* The continuation of the oldest waiting request with the counter and the
\* reply its branch chose, then the finally block.
Continued(branchCounter, branchReply) ==
    /\ counters' = incrementCounter(counters, branchCounter, 1)
    /\ reply' = branchReply
    /\ histograms' = recordHistogram(histograms, "proxy_request_duration_ms",
                                     now - pending[1].startTime)
    /\ written' = WroteHistogram(WroteCounter(written, branchCounter, 1),
                                 "proxy_request_duration_ms", now - pending[1].startTime)
    /\ pending' = Tail(pending)
    /\ UNCHANGED <<now, config, backend, checkerVars, checkInterval, timers, starts,
                   inflight, lastAttempt, gauges, selected, startedAt, response,
                   stoppedAt, validation, exported>>

RequestContinues ==
    /\ pending # <<>>
    /\ LET targetUrl == pending[1].targetUrl
       IN  IF targetUrl # null
           THEN Continued(TargetCounter(targetUrl), Forwarded(targetUrl))
           ELSE Continued("proxy_requests_failed_no_target", NoTargetReply)

-----------------------------------------------------------------------------
\* ConfigValidator.validateUrl / validateUrls (src/utils/validation.ts).  A
\* string is the sequence of its characters.

Letters == {"a", "b", "c"}
Digits == {"0", "1", "2", "3", "4", "5", "6", "7", "8", "9"}
DigitSeq == <<"0", "1", "2", "3", "4", "5", "6", "7", "8", "9">>

\* /^[a-zA-Z0-9.-]+:[0-9]+$/.test(value)
urlPattern(value) ==
    \E i \in DOMAIN value :
        /\ value[i] = ":"
        /\ i > 1
        /\ i < Len(value)
        /\ \A j \in 1..(i - 1) : value[j] \in Letters \cup Digits \cup {".", "-"}
        /\ \A j \in (i + 1)..Len(value) : value[j] \in Digits

\* value.split(':'), for a value with a ':': the first piece and the piece
\* after it (up to the next ':' or the end).
ColonsOf(value) == {i \in DOMAIN value : value[i] = ":"}
FirstColon(value) == CHOOSE i \in ColonsOf(value) : \A j \in ColonsOf(value) : i <= j
SplitHost(value) == SubSeq(value, 1, FirstColon(value) - 1)
SplitPort(value) ==
    LET rest == SubSeq(value, FirstColon(value) + 1, Len(value))
    IN  IF ColonsOf(rest) = {} THEN rest ELSE SubSeq(rest, 1, FirstColon(rest) - 1)

\* parseInt(portStr, 10), for a string of decimal digits.
RECURSIVE parseInt(_)
parseInt(portStr) ==
    IF portStr = <<>> THEN 0
    ELSE LET last == portStr[Len(portStr)]
             digit == (CHOOSE d \in DOMAIN DigitSeq : DigitSeq[d] = last) - 1
         IN  parseInt(SubSeq(portStr, 1, Len(portStr) - 1)) * 10 + digit

\* The entry of this.errors a check pushes: the field (TARGET_URLS, or
\* TARGET_URLS[index] with the index counted from 0) and which message.
ValidationError(index, message) == [field |-> "TARGET_URLS", index |-> index, message |-> message]
WholeList == -1

\* validateUrl: the errors it pushes.
validateUrl(index, value) ==
    IF value = <<>> THEN <<>>
    ELSE IF ~urlPattern(value) THEN <<ValidationError(index, "format")>>
    ELSE LET host == SplitHost(value)
             port == parseInt(SplitPort(value))
         IN  (IF Len(host) = 0 THEN <<ValidationError(index, "host")>> ELSE <<>>)
             \o (IF port < 1 \/ port > 65535
                 THEN <<ValidationError(index, "port")>> ELSE <<>>)

\* urls.forEach((url, index) => this.validateUrl(...)), over the first n entries.
RECURSIVE validateEach(_, _)
validateEach(urls, n) ==
    IF n = 0 THEN <<>>
    ELSE validateEach(urls, n - 1) \o validateUrl(n - 1, urls[n])

\* validateUrls, for an array: the errors it pushes.
validateUrls(urls) ==
    IF Len(urls) = 0 THEN <<ValidationError(WholeList, "empty")>>
    ELSE LET uniqueUrls == {urls[i] : i \in DOMAIN urls}
         IN  validateEach(urls, Len(urls))
             \o (IF Cardinality(uniqueUrls) # Len(urls)
                 THEN <<ValidationError(WholeList, "duplicates")>> ELSE <<>>)

\* new ConfigValidator().validateUrls('TARGET_URLS', urls).getResult()
ValidateUrls ==
    /\ ~validation.called
    /\ LET errors == validateUrls(validation.urls)
       IN  validation' = [urls |-> validation.urls, called |-> TRUE,
                          isValid |-> Len(errors) = 0, errors |-> errors]
    /\ UNCHANGED <<now, config, backend, checkerVars, checkInterval, timers, starts,
                   inflight, lastAttempt, metricVars, selected, startedAt, response,
                   stoppedAt, reply, requestVars>>

\* The entries of TARGET_URLS.split("|") the function is tried on: "", a:80,
\* b.c:1, a:65535, a:65536, a:0, a:080, :80, a:, a, a:b:1 and a_:80.
UrlEntries ==
    {<<>>,
     <<"a", ":", "8", "0">>,
     <<"b", ".", "c", ":", "1">>,
     <<"a", ":", "6", "5", "5", "3", "5">>,
     <<"a", ":", "6", "5", "5", "3", "6">>,
     <<"a", ":", "0">>,
     <<"a", ":", "0", "8", "0">>,
     <<":", "8", "0">>,
     <<"a", ":">>,
     <<"a">>,
     <<"a", ":", "b", ":", "1">>,
     <<"a", "_", ":", "8", "0">>}
UrlLists == UNION {[1..n -> UrlEntries] : n \in 0..MaxUrls}

-----------------------------------------------------------------------------
\* The environment: the clock and the backends.

\* The event loop runs what is due before the clock moves on: a timer that is
\* due fires, a probe that has reached its timeout settles, and the answer of
\* an answering backend arrives before the probe's timeout.
TickUntil(limit) ==
    /\ now < limit
    /\ \A handle \in DOMAIN timers : timers[handle] > now
    /\ \A p \in inflight :
           /\ Elapsed(p) < config.timeout
           /\ Answering(p.url) => Elapsed(p) + ClockStep < config.timeout
    /\ now' = now + ClockStep
    /\ UNCHANGED <<config, backend, checkerVars, checkInterval, timers, starts,
                   inflight, lastAttempt, metricVars, selected, startedAt, auxVars>>

Tick == TickUntil(MaxTicks * ClockStep)

BackendChanges(url, answer) ==
    /\ backend[url] # answer
    /\ backend' = [backend EXCEPT ![url] = answer]
    /\ UNCHANGED <<now, config, checkerVars, checkInterval, timers, starts,
                   inflight, lastAttempt, metricVars, selected, startedAt, auxVars>>

\* The end-to-end scenario's second half: both backends are shut down, once.
StopBackends ==
    /\ starts > 0
    /\ stoppedAt = Never
    /\ backend' = [url \in Targets |-> 0]
    /\ stoppedAt' = now
    /\ UNCHANGED <<now, config, checkerVars, checkInterval, timers, starts,
                   inflight, lastAttempt, metricVars, selected, response, startedAt,
                   reply, validation, requestVars>>

\* Before any proxied request the proxy has neither answered nor forwarded.
NoReply == [statusCode |-> 0, target |-> null]
\* Before validateUrls is called there is no list and no result.
NotValidated == [urls |-> <<>>, called |-> FALSE, isValid |-> FALSE, errors |-> <<>>]

-----------------------------------------------------------------------------
InitFor(configs, answers, lists) ==
    /\ now = 0
    /\ config \in configs
    /\ backend \in [Targets -> answers]
    /\ healthStatus = <<>>
    /\ checkInterval = NoTimer
    /\ failureCount = EmptyMap
    /\ circuitBreakerOpenUntil = EmptyMap
    /\ timers = EmptyMap
    /\ starts = 0
    /\ inflight = {}
    /\ lastAttempt = [url \in Targets |-> -1]
    /\ gauges = EmptyMap
    /\ histograms = EmptyMap
    /\ counters = EmptyMap
    /\ selected = NoCall
    /\ response = NoResponse
    /\ written = NothingWritten
    /\ startedAt = Never
    /\ stoppedAt = Never
    /\ reply = NoReply
    /\ pending = <<>>
    /\ exported = NoResponse
    /\ validation \in {[NotValidated EXCEPT !.urls = urls] : urls \in lists}

InitOver(configs, answers) == InitFor(configs, answers, {<<>>})
InitWith(configs) == InitOver(configs, Answers)

\* What the health checker and its environment do, apart from stop().
Run ==
    \/ (starts = 0 /\ start)
    \/ \E handle \in DOMAIN timers : TimerFires(handle)
    \/ \E p \in inflight : ProbeSucceeds(p)
    \/ \E p \in inflight : ProbeFails(p)
    \/ Tick
    \/ \E url \in Targets, answer \in Answers : BackendChanges(url, answer)

Next ==
    \/ Run
    \/ stop

\* The health checker alone, with one target: probes of successive cycles
\* overlapping, and the default threshold without overlap.
Init == InitWith(OverlapConfigs \cup DefaultConfigs)
Spec == Init /\ [][Next]_vars

\* The health checker under the scheduling the event loop guarantees: due
\* timers fire, pending probes settle, time passes.  The environment settles
\* early enough for the checker to react before the clock of the model stops.
EnvSettled == now >= SettleTicks * ClockStep
LiveTick == TickUntil(LiveMaxTicks * ClockStep)
LiveNext ==
    \/ (starts = 0 /\ start)
    \/ (~EnvSettled /\ stop)
    \/ \E handle \in DOMAIN timers : TimerFires(handle)
    \/ \E p \in inflight : ProbeSucceeds(p)
    \/ \E p \in inflight : ProbeFails(p)
    \/ LiveTick
    \/ \E url \in Targets, answer \in Answers :
           ~EnvSettled /\ BackendChanges(url, answer)
LiveSpec ==
    /\ InitWith(TieConfigs)
    /\ [][LiveNext]_vars
    /\ WF_vars(LiveTick)
    /\ WF_vars(\E handle \in DOMAIN timers : TimerFires(handle))
    /\ WF_vars(\E p \in inflight : ProbeSucceeds(p) \/ ProbeFails(p))

\* validateUrls alone, on every list of entries.
ValidationInit ==
    /\ InitFor(DefaultConfigs, {200}, UrlLists)
ValidationNext == ValidateUrls
ValidationSpec == ValidationInit /\ [][ValidationNext]_vars

\* One target answering with statuses around maxHealthyStatus, sooner or later.
StatusNext ==
    \/ (starts = 0 /\ start)
    \/ \E handle \in DOMAIN timers : TimerFires(handle)
    \/ \E p \in inflight : ProbeSucceeds(p)
    \/ \E p \in inflight : ProbeFails(p)
    \/ Tick
    \/ \E url \in Targets, answer \in StatusAnswers : BackendChanges(url, answer)
StatusSpec == InitOver(StatusConfigs, StatusAnswers) /\ [][StatusNext]_vars

\* One target over the long clock, never stopped, its backend changing until
\* the environment settles, and requests reading the healthy targets.
StaleNext ==
    \/ (starts = 0 /\ start)
    \/ \E handle \in DOMAIN timers : TimerFires(handle)
    \/ \E p \in inflight : ProbeSucceeds(p)
    \/ \E p \in inflight : ProbeFails(p)
    \/ LiveTick
    \/ \E url \in Targets, answer \in Answers :
           ~EnvSettled /\ BackendChanges(url, answer)
    \/ \E k \in 0..(RandomResolution - 1) : FindAvailableUrl(k)
StaleSpec == InitWith(TieConfigs) /\ [][StaleNext]_vars

\* One target whose backend answers throughout as it did at first, start()
\* called up to MaxStarts times and stop() called between cycles, when no probe
\* is in flight.
RestartNext ==
    \/ (starts < MaxStarts /\ start)
    \/ (inflight = {} /\ stop)
    \/ \E handle \in DOMAIN timers : TimerFires(handle)
    \/ \E p \in inflight : ProbeSucceeds(p)
    \/ \E p \in inflight : ProbeFails(p)
    \/ Tick
RestartSpec == InitWith(DefaultConfigs) /\ [][RestartNext]_vars

\* Two targets, probed in cycles of two probes, the checker started once and
\* stopped while a probe is in flight.
CyclesNext ==
    \/ Run
    \/ (inflight # {} /\ stop)
CyclesSpec == InitWith(PoolConfigs) /\ [][CyclesNext]_vars

\* Two targets, started once and never stopped, and requests selecting among them.
PoolInit == InitWith(PoolConfigs)
PoolNext ==
    \/ Run
    \/ \E k \in 0..(RandomResolution - 1) : FindAvailableUrl(k)
PoolSpec == PoolInit /\ [][PoolNext]_vars

\* Two targets, each backend answering 200 or 500 until all are shut down, the
\* checker started once and never stopped, and proxied requests.
RequestInit == InitOver(PoolConfigs, {200, 500})
RequestNext ==
    \/ (starts = 0 /\ start)
    \/ \E handle \in DOMAIN timers : TimerFires(handle)
    \/ \E p \in inflight : ProbeSucceeds(p)
    \/ \E p \in inflight : ProbeFails(p)
    \/ Tick
    \/ StopBackends
    \/ \E k \in 0..(RandomResolution - 1) : HandleRequest(k)
RequestSpec == RequestInit /\ [][RequestNext]_vars

\* The proxy with every kind of request: proxied requests in their two parts,
\* GET /health and GET /metrics.  A continuation is a microtask: while one is
\* waiting, no timer and no probe callback runs, only the other requests
\* of the same delivery.  Each monitoring endpoint is asked once, and the
\* clock stops one interval after the beginning: the first cycle and the next.
PipelineInit == RequestInit /\ backend["A"] = 200
PipelineNext ==
    \/ (pending = <<>> /\ starts = 0 /\ start)
    \/ (pending = <<>> /\ \E handle \in DOMAIN timers : TimerFires(handle))
    \/ (pending = <<>> /\ \E p \in inflight : ProbeSucceeds(p))
    \/ (pending = <<>> /\ \E p \in inflight : ProbeFails(p))
    \/ (pending = <<>> /\ TickUntil(config.healthCheckInterval))
    \/ \E k \in 0..(RandomResolution - 1) : RequestArrives(k)
    \/ RequestContinues
    \/ (response = NoResponse /\ HandleHealthEndpoint)
    \/ (exported = NoResponse /\ HandleMetricsEndpoint)
PipelineSpec == PipelineInit /\ [][PipelineNext]_vars

\* Two targets, started once and never stopped, and GET /health requests.
HealthNext ==
    \/ Run
    \/ HandleHealthEndpoint
HealthSpec == PoolInit /\ [][HealthNext]_vars

\* The end-to-end scenario: two targets that both answer 200 until they are
\* shut down, under the configuration of the integration tests (interval =
\* timeout, threshold 3) and under that of the pool.
EndToEndConfigs == PoolConfigs \cup {Config(<<"A", "B">>, 15000, 15000, 3)}
EndToEndInit ==
    /\ InitWith(EndToEndConfigs)
    /\ \A url \in Targets : backend[url] = 200
EndToEndNext ==
    \/ (starts = 0 /\ start)
    \/ \E handle \in DOMAIN timers : TimerFires(handle)
    \/ \E p \in inflight : ProbeSucceeds(p)
    \/ \E p \in inflight : ProbeFails(p)
    \/ Tick
    \/ StopBackends
    \/ HandleHealthEndpoint
EndToEndSpec == EndToEndInit /\ [][EndToEndNext]_vars

\* The Metrics registry alone, as in its unit tests: any sequence of calls.
MetricsInit ==
    /\ InitWith(DefaultConfigs)
    /\ \A url \in Targets : backend[url] = 200
MetricsNext ==
    \/ \E name \in CounterNames, args \in IncrementArgs : IncrementCounter(name, args)
    \/ \E name \in GaugeNames, value \in GaugeValues : SetGauge(name, value)
    \/ \E name \in HistogramNames, value \in Samples : RecordHistogram(name, value)
    \/ Reset
MetricsSpec == MetricsInit /\ [][MetricsNext]_vars

\* One histogram, filled by single calls and by the insertion loops.
HistogramNext ==
    \/ \E name \in HistogramNames, value \in Samples : RecordHistogram(name, value)
    \/ \E name \in HistogramNames, n \in LoopLengths : RecordLoop(name, n)
    \/ Reset
HistogramSpec == MetricsInit /\ [][HistogramNext]_vars

-----------------------------------------------------------------------------
\* Vocabulary of the properties.

\* The targets whose TargetHealth record says healthy.
HealthySet == {healthStatus[i].url : i \in {j \in DOMAIN healthStatus : healthStatus[j].healthy}}
\* A target's TargetHealth record, if it has one.
HealthRecord(url) == IF HealthHas(url) THEN <<HealthGet(url)>> ELSE <<>>
\* This step issues a probe of url.
ProbeStarted(url) == \E p \in inflight' \ inflight : p.url = url
\* This step is a probe of url settling as a failure, as a success.
FailureOf(url) == \E p \in inflight : p.url = url /\ ProbeFails(p)
SuccessOf(url) == \E p \in inflight : p.url = url /\ ProbeSucceeds(p)
\* This step begins a probe cycle.
CycleBegins == start \/ \E handle \in DOMAIN timers : TimerFires(handle)
\* When the timer that drives the cycles fired last.
LastCycle(handle) == timers[handle] - config.healthCheckInterval

-----------------------------------------------------------------------------
\* C1: findAvailableUrl returns null exactly when no target's TargetHealth is
\* healthy at the time of the call, and otherwise a target of the healthy set
\* (never an unhealthy or never-probed one); with A healthy and B not, it
\* returns A.
C1_SelectsOnlyHealthy ==
    [][\A k \in 0..(RandomResolution - 1) :
          FindAvailableUrl(k) =>
              /\ (selected' = null) <=> (HealthySet = {})
              /\ selected' # null => selected' \in HealthySet
              /\ HealthySet = {"A"} => selected' = "A"]_vars

C1_Witness ==
    /\ selected = "A"
    /\ HealthySet = {"A"}
    /\ HealthHas("B")

\* C2: a failed probe that brings the failure count to the threshold leaves
\* the breaker open, with openUntil = time of the failure + 60000.
C2_OpensAtThreshold ==
    [][\A url \in AllTargets :
          (FailureOf(url) /\ FailureCount(url)' = config.circuitBreakerThreshold) =>
              /\ isCircuitOpen(url)'
              /\ circuitBreakerOpenUntil'[url] = now + Cooldown]_vars

C2_Witness ==
    /\ FailureCount("A") = config.circuitBreakerThreshold
    /\ config.circuitBreakerThreshold = 3
    /\ isCircuitOpen("A")
    /\ circuitBreakerOpenUntil["A"] = HealthGet("A").lastCheck + Cooldown

\* C3: no probe of a target is issued while its breaker is open: the cycles
\* that begin in the window skip it.
C3_NoProbeWhileOpen ==
    [][\A url \in AllTargets : ProbeStarted(url) => ~isCircuitOpen(url)]_vars

\* A cycle began after the breaker opened and issued no probe of A.
C3_Witness ==
    /\ isCircuitOpen("A")
    /\ \E handle \in DOMAIN timers :
           /\ LastCycle(handle) > circuitBreakerOpenUntil["A"] - Cooldown
           /\ lastAttempt["A"] < LastCycle(handle)

\* C4: a target whose breaker is open is not among getHealthyTargets().
C4_OpenNotHealthy ==
    \A url \in AllTargets :
        isCircuitOpen(url) =>
            ~ \E i \in DOMAIN getHealthyTargets : getHealthyTargets[i] = url

\* The breaker is open while an earlier probe of the target is still in flight.
C4_Witness ==
    /\ isCircuitOpen("A")
    /\ HealthHas("A")
    /\ \E p \in inflight : p.url = "A"

\* C5 (as claimed): while a target's breaker is open, no step changes its
\* TargetHealth record.
C5_FrozenWhileOpen ==
    [][\A url \in AllTargets :
          isCircuitOpen(url) => HealthRecord(url)' = HealthRecord(url)]_vars

\* C6 (as claimed): a breaker opens only in a step recording a failure that
\* brings the count to the threshold, and an open breaker has count >= threshold.
C6_OpensOnlyAtThreshold ==
    /\ [](\A url \in AllTargets :
            isCircuitOpen(url) => FailureCount(url) >= config.circuitBreakerThreshold)
    /\ [][\A url \in AllTargets :
            (~isCircuitOpen(url) /\ isCircuitOpen(url)') =>
                /\ FailureOf(url)
                /\ FailureCount(url)' = config.circuitBreakerThreshold]_vars

\* C6 (amended): a breaker opens only in a step recording a failure that
\* brings the count to the threshold or beyond it, and an open breaker has
\* count >= threshold.
C6_OpensOnlyFromThreshold ==
    /\ [](\A url \in AllTargets :
            isCircuitOpen(url) => FailureCount(url) >= config.circuitBreakerThreshold)
    /\ [][\A url \in AllTargets :
            (~isCircuitOpen(url) /\ isCircuitOpen(url)') =>
                /\ FailureOf(url)
                /\ FailureCount(url)' >= config.circuitBreakerThreshold]_vars

\* A breaker that opened again after its cooldown.
C6_Witness ==
    /\ isCircuitOpen("A")
    /\ FailureCount("A") > config.circuitBreakerThreshold
    /\ lastAttempt["A"] >= Cooldown
    /\ inflight = {}

\* C7 (as claimed): while a breaker is open no step removes or shortens its
\* openUntil.
C7_ClosesOnlyByTime ==
    [][\A url \in AllTargets :
          isCircuitOpen(url) =>
              /\ MapHas(circuitBreakerOpenUntil', url)
              /\ circuitBreakerOpenUntil'[url] >= circuitBreakerOpenUntil[url]]_vars

\* C8: the failure count is a natural number; a failure settling adds exactly
\* 1, a success settling makes it 0, and no other step changes it.
C8_FailureCount ==
    /\ [](\A url \in AllTargets : FailureCount(url) \in Nat)
    /\ [][\A url \in AllTargets :
            /\ FailureOf(url) => FailureCount(url)' = FailureCount(url) + 1
            /\ SuccessOf(url) => FailureCount(url)' = 0
            /\ FailureCount(url)' # FailureCount(url) =>
                   FailureOf(url) \/ SuccessOf(url)]_vars

\* Two failures counted, and the count kept when the cooldown expired.
C8_Witness ==
    /\ FailureCount("A") >= 2
    /\ MapHas(circuitBreakerOpenUntil, "A")
    /\ ~isCircuitOpen("A")

\* C9: a cycle that begins once now >= openUntil issues a probe of the target
\* again; and with the timer running, a backend that answers its probes
\* successfully from some point on ends up healthy (selectable) for good.
C9_ProbedAgain ==
    \A url \in AllTargets :
        (CycleBegins /\ url \in Targets /\ MapHas(circuitBreakerOpenUntil, url)
            /\ now >= circuitBreakerOpenUntil[url])
        => ProbeStarted(url)

C9_Recovers ==
    /\ [][C9_ProbedAgain]_vars
    /\ \A url \in AllTargets :
           <>[](/\ url \in Targets
                /\ Answering(url) /\ validateStatus(backend[url])
                /\ timers # EmptyMap)
           => <>[](url \in HealthySet)

\* The breaker opened, its cooldown expired, and the next cycle issued a probe
\* to the backend, which now answers.
C9_Witness ==
    /\ MapHas(circuitBreakerOpenUntil, "A")
    /\ now >= circuitBreakerOpenUntil["A"]
    /\ Answering("A") /\ validateStatus(backend["A"])
    /\ \E p \in inflight : p.url = "A" /\ p.startTime >= circuitBreakerOpenUntil["A"]

\* C10 (as claimed): once the failure count has reached the threshold, two
\* probes of the target are issued at least a cooldown apart, and a failure
\* opens the breaker at once.
C10_OneProbePerCooldown ==
    [][\A url \in AllTargets :
          /\ (ProbeStarted(url)
                /\ FailureCount(url) >= config.circuitBreakerThreshold
                /\ lastAttempt[url] >= 0)
             => now - lastAttempt[url] >= Cooldown
          /\ (FailureOf(url) /\ FailureCount(url) >= config.circuitBreakerThreshold)
             => circuitBreakerOpenUntil'[url] = now + Cooldown]_vars

\* The configured targets whose TargetHealth record says healthy.
HealthyConfigured == {url \in Targets : url \in HealthySet}

\* C11 (as claimed): once started, getOverallHealth() is 'healthy' iff every
\* configured target is healthy, 'unhealthy' iff none is, 'degraded' otherwise.
C11_OverallHealth ==
    starts > 0 =>
        LET status == getOverallHealth.status
        IN  /\ status = "healthy" <=> HealthyConfigured = Targets
            /\ status = "unhealthy" <=> HealthyConfigured = {}
            /\ status = "degraded" <=> HealthyConfigured \notin {{}, Targets}

\* C12: GET /health answers 503 exactly when the overall status is
\* 'unhealthy', and 200 when it is 'healthy' or 'degraded'.
C12_HealthStatusCode ==
    [][HandleHealthEndpoint =>
          /\ response'.body.status = getOverallHealth.status
          /\ response'.statusCode = 503 <=> getOverallHealth.status = "unhealthy"
          /\ getOverallHealth.status \in {"healthy", "degraded"} =>
                 response'.statusCode = 200]_vars

\* /health answered 503 while one target was known, and unhealthy.
C12_Witness ==
    /\ response # NoResponse
    /\ response.statusCode = 503
    /\ response.body.status = "unhealthy"
    /\ response.body.details.total_targets = 1

\* Every probe cycle begun so far has completed.
CyclesCompleted == starts > 0 /\ inflight = {}

\* C13: with two targets that both answer 200, GET /health after a completed
\* cycle reports 'healthy' with healthy_targets = 2; once both backends have
\* stopped answering and a cycle begun after that has completed, it reports
\* 'unhealthy' and answers 503.
C13_EndToEnd ==
    [][HandleHealthEndpoint =>
          /\ (/\ CyclesCompleted
              /\ stoppedAt = Never
              /\ Len(config.targets) = 2
              /\ \A url \in Targets : backend[url] = 200)
             => /\ response'.body.status = "healthy"
                /\ response'.body.details.healthy_targets = 2
                /\ response'.statusCode = 200
          /\ (/\ CyclesCompleted
              /\ stoppedAt # Never
              /\ \A url \in Targets : lastAttempt[url] > stoppedAt)
             => /\ response'.body.status = "unhealthy"
                /\ response'.statusCode = 503]_vars

\* The backends answered the first cycle, were shut down, failed a later
\* cycle, and GET /health then answered 503.
C13_Witness ==
    /\ stoppedAt # Never
    /\ startedAt < stoppedAt
    /\ CyclesCompleted
    /\ \A url \in Targets : lastAttempt[url] > stoppedAt
    /\ response # NoResponse
    /\ response.statusCode = 503
    /\ response.body.details.total_targets = 2

\* The probes start() issued have all settled.
FirstCycleSettled ==
    /\ startedAt # Never
    /\ \A p \in inflight : p.startTime # startedAt

\* C14: once the first probe cycle has settled there is exactly one
\* TargetHealth record per configured target; at no time is there a record of
\* a URL that is not configured, and no step deletes a record.
C14_KeysAreTargets ==
    /\ [](FirstCycleSettled =>
             \A url \in AllTargets :
                 Cardinality(HealthIndex(url)) = IF url \in Targets THEN 1 ELSE 0)
    /\ [](\A i \in DOMAIN healthStatus : healthStatus[i].url \in Targets)
    /\ [][\A url \in AllTargets : HealthHas(url) => HealthHas(url)']_vars

\* After the first cycle, a later cycle skipped A, whose breaker is open, and
\* its probe of B is still in flight.
C14_Witness ==
    /\ FirstCycleSettled
    /\ isCircuitOpen("A")
    /\ \E p \in inflight : p.url = "B" /\ p.startTime > startedAt
    /\ lastAttempt["A"] < lastAttempt["B"]
    /\ Len(healthStatus) = 2

\* C15 (as claimed): whenever GET /health is answered once the checker is
\* started, total_targets is the number of configured targets and
\* healthy_targets the number of configured targets that are healthy, so
\* healthy_targets <= total_targets.
C15_HealthCounts ==
    [][(HandleHealthEndpoint /\ starts > 0) =>
          /\ response'.body.details.total_targets = Len(config.targets)
          /\ response'.body.details.healthy_targets = Cardinality(HealthyConfigured)
          /\ response'.body.details.healthy_targets
                 <= response'.body.details.total_targets]_vars

\* What was added to a counter, recorded into a histogram, since the last reset.
Added(name) == MapGetOr(written.counters, name, <<>>)
RecordedValues(name) == MapGetOr(written.histograms, name, <<>>)
\* The samples a histogram retains, in the order it holds them.
RetainedValues(name) ==
    LET entries == MapGetOr(histograms, name, <<>>)
    IN  [i \in DOMAIN entries |-> entries[i].value]
\* The last k elements of a sequence.
LastOf(seq, k) == SubSeq(seq, Len(seq) - k + 1, Len(seq))
Min(a, b) == IF a < b THEN a ELSE b

\* C16: for every counter name, getCounter is the sum of the values of all
\* the incrementCounter calls made for it since the last reset, in whatever
\* order the callers' calls were made.
C16_CounterIsSum ==
    \A name \in MetricNames : getCounter(name) = reduceSum(Added(name))

\* Calls for two counters interleaved, with a negative and a default value.
C16_Witness ==
    /\ Added("test_counter") = <<-2, 1, -2>>
    /\ Added("proxy_requests_total") = <<1, 1>>
    /\ getCounter("test_counter") = -3
    /\ getCounter("proxy_requests_total") = 2

\* C17: every histogram series holds at most 1000 samples.
C17_AtMost1000 ==
    \A name \in DOMAIN histograms : Len(histograms[name]) <= 1000

\* More than 1000 values were recorded and the series holds 1000.
C17_Witness ==
    /\ Len(RecordedValues("test_histogram")) = 1502
    /\ Len(histograms["test_histogram"]) = 1000

\* C18: a histogram retains exactly the last min(k, 1000) of the k values
\* recorded since the last reset, in insertion order; a call evicts the one
\* oldest sample iff the series already held 1000 samples; recording 1..1500
\* leaves count = 1000, min = 501, max = 1500.
C18_MostRecent ==
    /\ [](\A name \in HistogramNames :
             /\ RetainedValues(name) =
                    LastOf(RecordedValues(name), Min(Len(RecordedValues(name)), 1000))
             /\ RecordedValues(name) = [i \in 1..1500 |-> i] =>
                    /\ getHistogramStats(name).count = 1000
                    /\ getHistogramStats(name).min = 501
                    /\ getHistogramStats(name).max = 1500)
    /\ [][\A name \in HistogramNames, value \in Samples :
             RecordHistogram(name, value) =>
                 RetainedValues(name)' =
                     IF Len(RetainedValues(name)) = 1000
                     THEN Append(Tail(RetainedValues(name)), value)
                     ELSE Append(RetainedValues(name), value)]_vars

\* 1..999 were recorded, then one value without eviction, then one evicting 1.
C18_Witness ==
    /\ Len(RecordedValues("test_histogram")) = 1001
    /\ SubSeq(RecordedValues("test_histogram"), 1, 999) = [i \in 1..999 |-> i]
    /\ Len(RetainedValues("test_histogram")) = 1000
    /\ RetainedValues("test_histogram")[1] = 2

\* C19: on a non-empty series getHistogramStats returns the number of
\* retained samples, their mean, their minimum and maximum, and as p95 the
\* sample of rank floor(count * 0.95), counted from 0 in ascending order;
\* p95 = 96 for 1..100, and the larger one of two samples.
C19_Stats ==
    \A name \in HistogramNames :
        LET retained == RetainedValues(name)
            count == Len(retained)
            rank == (19 * count) \div 20
            stats == getHistogramStats(name)
        IN  count > 0 =>
              /\ stats.count = count
              /\ stats.avg.den > 0
              /\ stats.avg.num * count = stats.avg.den * reduceSum(retained)
              /\ \E i \in DOMAIN retained : retained[i] = stats.min
              /\ \A i \in DOMAIN retained : stats.min <= retained[i]
              /\ \E i \in DOMAIN retained : retained[i] = stats.max
              /\ \A i \in DOMAIN retained : retained[i] <= stats.max
              /\ \E i \in DOMAIN retained : retained[i] = stats.p95
              /\ Cardinality({i \in DOMAIN retained : retained[i] < stats.p95}) <= rank
              /\ rank < Cardinality({i \in DOMAIN retained : retained[i] <= stats.p95})
              /\ retained = [i \in 1..100 |-> i] => stats.p95 = 96
              /\ count = 2 =>
                     /\ stats.p95 >= retained[1]
                     /\ stats.p95 >= retained[2]

\* The series holds 1..100 and its p95 is 96.
C19_Witness ==
    /\ RetainedValues("test_histogram") = [i \in 1..100 |-> i]
    /\ getHistogramStats("test_histogram").p95 = 96
    /\ getHistogramStats("test_histogram").avg = [num |-> 101, den |-> 2]

\* C20: for a name not written since construction or the last reset,
\* getCounter returns 0, getGauge undefined (a gauge set to 0 is defined) and
\* getHistogramStats null; after reset() that holds of every name, and
\* getAllMetrics() returns three empty maps.
C20_AbsentUntilWritten ==
    /\ [](\A name \in MetricNames :
             /\ name \notin DOMAIN written.counters => getCounter(name) = 0
             /\ name \notin written.gauges => getGauge(name) = undefined
             /\ name \in written.gauges => getGauge(name) # undefined
             /\ name \notin DOMAIN written.histograms =>
                    getHistogramStats(name) = nullStats)
    /\ [][Reset =>
             /\ \A name \in MetricNames :
                    /\ getCounter(name)' = 0
                    /\ getGauge(name)' = undefined
                    /\ getHistogramStats(name)' = nullStats
             /\ getAllMetrics' = [counters |-> EmptyMap, gauges |-> EmptyMap,
                                  histograms |-> EmptyMap]]_vars

\* A gauge set to 0, beside a counter and a histogram written and a name that
\* was never written.
C20_Witness ==
    /\ getGauge("test_gauge") = [value |-> 0]
    /\ getCounter("test_counter") # 0
    /\ getHistogramStats("test_histogram") # nullStats
    /\ getCounter("proxy_requests_total") = 0
    /\ "proxy_requests_total" \notin DOMAIN written.counters

\* The checker was started and then stopped.
Stopped == starts > 0 /\ checkInterval = NoTimer
\* The checker was started and its timer is live.
Running == checkInterval # NoTimer

\* C21: once stop() has returned (start() called once before), no step issues
\* a probe: the probes in flight only settle, and no target is attempted again.
C21_NoProbeAfterStop ==
    /\ [][stop => inflight' = inflight]_vars
    /\ [][Stopped => /\ inflight' \subseteq inflight
                     /\ lastAttempt' = lastAttempt]_vars

\* Stopped with a probe still in flight, at a time when the next cycle would
\* have been due.
C21_Witness ==
    /\ Stopped
    /\ starts = 1
    /\ inflight # {}
    /\ \A url \in Targets : now >= lastAttempt[url] + config.healthCheckInterval

\* C22: start() issues, at the time of the call, a probe of every configured
\* target whose breaker is not open; from then on, while the checker is not
\* stopped, a cycle begins at every multiple of the interval after start() and
\* at no other time, and the next one is scheduled at most one interval ahead.
C22_CyclesEveryInterval ==
    /\ [][start => \A url \in Targets :
                       ~isCircuitOpen(url) =>
                           \E p \in inflight' \ inflight :
                               p.url = url /\ p.startTime = now]_vars
    /\ [][\A handle \in DOMAIN timers :
              TimerFires(handle) =>
                  /\ now > startedAt
                  /\ (now - startedAt) % config.healthCheckInterval = 0
                  /\ timers'[handle] = now + config.healthCheckInterval
                  /\ \A url \in Targets :
                         ~isCircuitOpen(url) =>
                             \E p \in inflight' \ inflight :
                                 p.url = url /\ p.startTime = now]_vars
    /\ [](Running => /\ MapHas(timers, checkInterval)
                     /\ now <= timers[checkInterval]
                     /\ timers[checkInterval] <= now + config.healthCheckInterval)

\* The third cycle after the immediate one is scheduled, the target having
\* been probed at start() and at the two cycles since.
C22_Witness ==
    /\ Running
    /\ startedAt = 0
    /\ timers[checkInterval] = startedAt + 3 * config.healthCheckInterval
    /\ \A url \in Targets :
           lastAttempt[url] = startedAt + 2 * config.healthCheckInterval

\* What the claim calls a success of probe p settling now: an answer, before
\* the timeout, with a status of at most maxHealthyStatus.
AnswersInTime(p) ==
    /\ backend[p.url] # 0
    /\ now - p.startTime < config.timeout
    /\ backend[p.url] <= config.maxHealthyStatus

\* C23: a probe settles as a success (healthy record, failure count reset)
\* iff an answer arrives within the timeout with status <= maxHealthyStatus,
\* and as a failure (unhealthy record, failure count + 1) otherwise; with the
\* default 499 a 4xx answer in time is a success and a 5xx answer a failure.
C23_SuccessIffStatus ==
    [][\A p \in inflight :
          (ProbeSucceeds(p) \/ ProbeFails(p)) =>
              /\ ProbeSucceeds(p) <=> AnswersInTime(p)
              /\ HealthGet(p.url)'.healthy <=> AnswersInTime(p)
              /\ AnswersInTime(p) => FailureCount(p.url)' = 0
              /\ ~AnswersInTime(p) => FailureCount(p.url)' = FailureCount(p.url) + 1
              /\ (config.maxHealthyStatus = 499 /\ now - p.startTime < config.timeout) =>
                     /\ backend[p.url] \in 400..499 => HealthGet(p.url)'.healthy
                     /\ backend[p.url] \in 500..599 => ~HealthGet(p.url)'.healthy]_vars

\* Under the default maxHealthyStatus, an answer 499 that took one clock step
\* has just been recorded as healthy.
C23_Witness ==
    /\ config.maxHealthyStatus = 499
    /\ backend["A"] = 499
    /\ HealthHas("A")
    /\ HealthGet("A").healthy
    /\ HealthGet("A").lastCheck = now
    /\ HealthGet("A").responseTime = ClockStep
    /\ FailureCount("A") = 0

\* The counters the request handler writes for the targets.
ForwardedCount ==
    getCounter(TargetCounter("A")) + getCounter(TargetCounter("B"))

Settles(p) == ProbeSucceeds(p) \/ ProbeFails(p)
\* After this step the two aggregate gauges tell the state of the records.
GaugesRefreshed ==
    /\ getGauge("proxy_healthy_targets")' = [value |-> Cardinality(HealthySet')]
    /\ getGauge("proxy_total_targets")' = [value |-> Len(config.targets)]

\* C25: a probe that fails, for whatever reason, is recorded and leaves its
\* cycle without ending it: the other probes stay in flight and every probe
\* in flight can settle; the failure that settles last refreshes the two
\* gauges; the timer is untouched, and while the checker is not stopped the
\* next cycle stays scheduled at most one interval ahead.
C25_FailureStaysInside ==
    /\ [][\A p \in inflight :
              ProbeFails(p) =>
                  /\ inflight' = inflight \ {p}
                  /\ ~HealthGet(p.url)'.healthy
                  /\ UNCHANGED <<timers, checkInterval>>
                  /\ Siblings(p) = {} => GaugesRefreshed]_vars
    /\ [](\A p \in inflight : ENABLED Settles(p))
    /\ [](Running => /\ MapHas(timers, checkInterval)
                     /\ timers[checkInterval] <= now + config.healthCheckInterval)

\* A's probe failed on a timeout while B's probe of the same cycle succeeded,
\* the gauges count one healthy target of two, and a later cycle has its
\* probes in flight.
C25_Witness ==
    /\ Running
    /\ HealthHas("A") /\ HealthHas("B")
    /\ ~HealthGet("A").healthy
    /\ HealthGet("A").error = "timeout"
    /\ HealthGet("B").healthy
    /\ getGauge("proxy_healthy_targets") = [value |-> 1]
    /\ getGauge("proxy_total_targets") = [value |-> 2]
    /\ \E p \in inflight : p.startTime > HealthGet("A").lastCheck

\* This step is a read of the healthy targets by the request path.
ReadsHealthyTargets == \E k \in 0..(RandomResolution - 1) : FindAvailableUrl(k)
\* How long ago the record of url was written.
Staleness(url) == now - HealthGet(url).lastCheck
\* How old a record can get: a cycle begins within one interval and its probe
\* settles within the timeout, after the cooldown if the breaker was opened.
StaleBound(url) ==
    IF MapHas(circuitBreakerOpenUntil, url)
    THEN Cooldown + config.healthCheckInterval + config.timeout
    ELSE config.healthCheckInterval + config.timeout

\* C26 (as claimed): while the checker runs, every read finds for every
\* target that has a record one written within the last interval.
C26_OneIntervalStale ==
    [][(ReadsHealthyTargets /\ Running) =>
           \A url \in Targets :
               HealthHas(url) => Staleness(url) <= config.healthCheckInterval]_vars

\* C26 (amended): while the checker runs, every read finds a record of every
\* target whose first probe has settled, written at most interval + timeout
\* ago, or cooldown + interval + timeout ago when a breaker opening is stored
\* for the target.
C26_BoundedStaleness ==
    [][(ReadsHealthyTargets /\ Running) =>
           \A url \in Targets :
               /\ FirstCycleSettled => HealthHas(url)
               /\ HealthHas(url) => Staleness(url) <= StaleBound(url)]_vars

\* A read while the breaker is open finds a record written more than two
\* intervals ago.
C26_Witness ==
    /\ Running
    /\ selected = null
    /\ isCircuitOpen("A")
    /\ HealthHas("A")
    /\ Staleness("A") > 2 * config.healthCheckInterval

WellFormed(entry) ==
    \E i \in DOMAIN entry :
        /\ entry[i] = ":"
        /\ i > 1 /\ i < Len(entry)
        /\ \A j \in 1..(i - 1) : entry[j] \in Letters \cup Digits \cup {".", "-"}
        /\ \A j \in (i + 1)..Len(entry) : entry[j] \in Digits
        /\ parseInt(SubSeq(entry, i + 1, Len(entry))) \in 1..65535
\* No entry occurs twice in the list.
Distinct(urls) == \A i, j \in DOMAIN urls : urls[i] = urls[j] => i = j

\* C28 (as claimed): validateUrls accepts a list iff it is non-empty, its
\* entries are distinct and every entry is of the form host:port with port in
\* 1..65535; an accepted list has no entry twice.
C28_ValidateUrls ==
    validation.called =>
        /\ validation.isValid <=>
               /\ Len(validation.urls) > 0
               /\ Distinct(validation.urls)
               /\ \A i \in DOMAIN validation.urls : WellFormed(validation.urls[i])
        /\ validation.isValid => Distinct(validation.urls)

\* C29: stop() leaves the probes in flight and the records as they are; a
\* probe that settles after stop() writes its target's record at the time of
\* settling, resets or counts the failure and opens the breaker from the
\* threshold on, as it would have before; the last probe of its cycle to
\* settle refreshes the two gauges; and every probe in flight after stop()
\* can settle.
C29_StopLeavesProbes ==
    /\ [][stop => /\ inflight' = inflight
                  /\ UNCHANGED <<checkerVars, gauges>>]_vars
    /\ [][\A p \in inflight :
              (Stopped /\ Settles(p)) =>
                  /\ HealthGet(p.url)'.lastCheck = now
                  /\ ProbeSucceeds(p) =>
                         /\ HealthGet(p.url)'.healthy
                         /\ FailureCount(p.url)' = 0
                         /\ ~MapHas(circuitBreakerOpenUntil', p.url)
                  /\ ProbeFails(p) =>
                         /\ ~HealthGet(p.url)'.healthy
                         /\ FailureCount(p.url)' = FailureCount(p.url) + 1
                         /\ FailureCount(p.url)' >= config.circuitBreakerThreshold =>
                                circuitBreakerOpenUntil'[p.url] = now + Cooldown
                  /\ IF Siblings(p) = {} THEN GaugesRefreshed ELSE gauges' = gauges]_vars
    /\ [](Stopped => \A p \in inflight : ENABLED Settles(p))

\* stop() was called with the first cycle in flight; B's probe has succeeded
\* and A's, the last to settle and after stop(), has timed out and opened its
\* breaker, and the gauges were refreshed.
C29_Witness ==
    /\ Stopped
    /\ inflight = {}
    /\ lastAttempt = [url \in Targets |-> startedAt]
    /\ HealthHas("A") /\ HealthHas("B")
    /\ ~HealthGet("A").healthy
    /\ HealthGet("A").lastCheck = startedAt + config.timeout
    /\ isCircuitOpen("A")
    /\ HealthGet("B").healthy
    /\ getGauge("proxy_healthy_targets") = [value |-> 1]

\* The openUntil stored for url, if any.
OpenUntil(url) ==
    IF MapHas(circuitBreakerOpenUntil, url) THEN <<circuitBreakerOpenUntil[url]>> ELSE <<>>

\* C30: a probe of one target settling, as a success or as a failure, leaves
\* every other target's record, failure count and openUntil as they were,
\* leaves the other probes in flight, and leaves what each of them will
\* settle as (the error it would fail with, if any) as it was.
C30_SettleTouchesOneTarget ==
    [][\A p \in inflight :
          Settles(p) =>
              /\ \A url \in Targets \ {p.url} :
                     /\ HealthRecord(url)' = HealthRecord(url)
                     /\ FailureCount(url)' = FailureCount(url)
                     /\ OpenUntil(url)' = OpenUntil(url)
              /\ inflight' = inflight \ {p}
              /\ \A q \in inflight \ {p} : ProbeError(q)' = ProbeError(q)]_vars

\* In the second cycle A's probe has failed and opened A's breaker while B's
\* probe of the same cycle is in flight; B's record is that of the first
\* cycle, healthy, with no failure counted and no openUntil.
C30_Witness ==
    /\ HealthHas("A") /\ HealthHas("B")
    /\ ~HealthGet("A").healthy
    /\ HealthGet("A").lastCheck = lastAttempt["A"]
    /\ isCircuitOpen("A")
    /\ lastAttempt["A"] > startedAt
    /\ \E q \in inflight : q.url = "B" /\ q.startTime = lastAttempt["A"]
    /\ HealthGet("B").healthy
    /\ HealthGet("B").lastCheck = startedAt
    /\ FailureCount("B") = 0
    /\ OpenUntil("B") = <<>>

\* C31: a probe that settles while another probe of its cycle is in flight
\* leaves the gauges alone; the last probe of a cycle to settle sets
\* proxy_healthy_targets to the number of healthy records and
\* proxy_total_targets to the number of configured targets; the gauges change
\* in no other step, but for a cycle that issues no probe at all; and when
\* both are set, proxy_healthy_targets <= proxy_total_targets.
C31_GaugesAfterCycle ==
    /\ [][\A p \in inflight :
              Settles(p) =>
                  IF Siblings(p) = {} THEN GaugesRefreshed ELSE gauges' = gauges]_vars
    /\ [][gauges' # gauges =>
              \/ \E p \in inflight : Settles(p) /\ Siblings(p) = {}
              \/ CycleBegins /\ inflight' = inflight]_vars
    /\ []((MapHas(gauges, "proxy_healthy_targets") /\ MapHas(gauges, "proxy_total_targets"))
              => gauges["proxy_healthy_targets"] <= gauges["proxy_total_targets"])

\* In the second cycle A's probe has failed while B's is in flight: one
\* record is healthy, and the gauge still says two, as the first cycle left it.
C31_Witness ==
    /\ getGauge("proxy_healthy_targets") = [value |-> 2]
    /\ getGauge("proxy_total_targets") = [value |-> 2]
    /\ HealthySet = {"B"}
    /\ HealthHas("A")
    /\ \E q \in inflight : q.url = "B" /\ q.startTime = HealthGet("A").lastCheck

\* The samples of the proxy_target_response_time histogram, oldest first.
ResponseTimes ==
    LET entries == MapGetOr(histograms, "proxy_target_response_time", <<>>)
    IN  [i \in DOMAIN entries |-> entries[i].value]

\* C32: a probe settling as a success leaves the target's record healthy with
\* the time the probe took as responseTime, appends that time, and nothing
\* else, to proxy_target_response_time, and leaves the failure count at 0; a
\* probe settling as a failure leaves the record unhealthy with an error
\* description, leaves the histograms as they were and adds 1 to the failure
\* count.
C32_SettleBookkeeping ==
    [][\A p \in inflight :
          /\ ProbeSucceeds(p) =>
                 /\ HealthGet(p.url)'.healthy
                 /\ HealthGet(p.url)'.responseTime = now - p.startTime
                 /\ ResponseTimes' = Append(ResponseTimes, now - p.startTime)
                 /\ FailureCount(p.url)' = 0
          /\ ProbeFails(p) =>
                 /\ ~HealthGet(p.url)'.healthy
                 /\ HealthGet(p.url)'.error \in {"timeout", "ECONNREFUSED", "status"}
                 /\ histograms' = histograms
                 /\ FailureCount(p.url)' = FailureCount(p.url) + 1]_vars

\* A success that took one clock step, then two failures, the last on a bad
\* status: the histogram holds the one latency and the count is 2.
C32_Witness ==
    /\ HealthHas("A")
    /\ ~HealthGet("A").healthy
    /\ HealthGet("A").error = "status"
    /\ ResponseTimes = <<ClockStep>>
    /\ FailureCount("A") = 2

\* A probe of p's target started after p has already settled: the target's
\* most recently started probe is later than p and is not in flight.
LaterProbeSettled(p) ==
    /\ lastAttempt[p.url] > p.startTime
    /\ ~\E q \in inflight : q.url = p.url /\ q.startTime = lastAttempt[p.url]

\* C33 (as claimed): the healthy flag is the outcome of the most recently
\* started probe of the target that has settled; so a probe that settles when
\* a probe started after it has already settled leaves the flag as it is.
C33_FlagOfLastStarted ==
    [][\A p \in inflight :
          (Settles(p) /\ LaterProbeSettled(p)) =>
              HealthGet(p.url)'.healthy = HealthGet(p.url).healthy]_vars

\* C34 (as claimed): the lastCheck a settling probe writes into the record is
\* the time at which that probe was issued.
C34_LastCheckIsAttempt ==
    [][\A p \in inflight :
          Settles(p) => HealthGet(p.url)'.lastCheck = p.startTime]_vars

\* The timers whose handle the checker no longer holds.
Orphans == DOMAIN timers \ {checkInterval}

\* C36: a start() while a timer is live creates a second timer and leaves
\* the first; stop() clears only the timer whose handle is held; a timer whose
\* handle is not held is cleared by no step, stays scheduled at most one
\* interval ahead, and when it fires after stop() it issues a probe of every
\* target whose breaker is not open.
C36_SecondStartLeaksTimer ==
    /\ [][(start /\ Running) =>
              /\ checkInterval' # checkInterval
              /\ {checkInterval, checkInterval'} \subseteq DOMAIN timers']_vars
    /\ [][stop => timers' = [handle \in Orphans |-> timers[handle]]]_vars
    /\ [][Orphans \subseteq DOMAIN timers']_vars
    /\ [](\A handle \in Orphans :
              /\ now <= timers[handle]
              /\ timers[handle] <= now + config.healthCheckInterval)
    /\ [][\A handle \in DOMAIN timers :
              (Stopped /\ TimerFires(handle)) =>
                  \A url \in Targets : ~isCircuitOpen(url) => ProbeStarted(url)]_vars

\* start() was called twice and stop() since; the first timer is live and a
\* probe of a cycle it began after the stop() is in flight.
C36_Witness ==
    /\ starts = 2
    /\ Stopped
    /\ DOMAIN timers = {1}
    /\ \E p \in inflight : p.cycle = 1 /\ p.startTime > startedAt

\* C38: every TargetHealth record is the only one of its url, which is a
\* configured target, has a lastCheck, has a responseTime iff it is healthy
\* and an error iff it is not.
C38_RecordsWellFormed ==
    \A i \in DOMAIN healthStatus :
        LET record == healthStatus[i]
        IN  /\ record.url \in Targets
            /\ HealthIndex(record.url) = {i}
            /\ "lastCheck" \in DOMAIN record
            /\ "responseTime" \in DOMAIN record <=> record.healthy
            /\ "error" \in DOMAIN record <=> ~record.healthy

\* A's record is unhealthy and was written after the first cycle; B's is
\* healthy and was written one cooldown after start(); two successes were
\* recorded, one of them in the first cycle, so a record was rewritten from
\* one kind to the other.
C38_Witness ==
    /\ HealthHas("A") /\ HealthHas("B")
    /\ ~HealthGet("A").healthy
    /\ HealthGet("A").lastCheck > startedAt
    /\ HealthGet("B").healthy
    /\ HealthGet("B").lastCheck = startedAt + Cooldown
    /\ Len(ResponseTimes) = 2
    /\ histograms["proxy_target_response_time"][1].timestamp = startedAt

\* C40: for every series that has a sample, getHistogramStats returns
\* 1 <= count <= 1000, min <= avg <= max and min <= p95 <= max; the index
\* floor(count * 0.95) is within 0..count-1 and p95 is a retained sample.
C40_StatsInRange ==
    \A name \in DOMAIN histograms :
        LET stats == getHistogramStats(name)
            retained == RetainedValues(name)
        IN  Len(histograms[name]) > 0 =>
              /\ stats # nullStats
              /\ 1 <= stats.count /\ stats.count <= 1000
              /\ P95Index(stats.count) \in 0..(stats.count - 1)
              /\ stats.avg.den > 0
              /\ stats.min * stats.avg.den <= stats.avg.num
              /\ stats.avg.num <= stats.max * stats.avg.den
              /\ stats.min <= stats.p95 /\ stats.p95 <= stats.max
              /\ \E i \in DOMAIN retained : retained[i] = stats.p95

\* The series is full after the loop 1..1500: count = 1000, and p95 is the
\* sample of index 950 of 501..1500.
C40_Witness ==
    /\ MapHas(histograms, "test_histogram")
    /\ getHistogramStats("test_histogram").count = 1000
    /\ P95Index(1000) = 950
    /\ getHistogramStats("test_histogram").min = 501
    /\ getHistogramStats("test_histogram").p95 = 1451
    /\ getHistogramStats("test_histogram").max = 1500

\* C37: until some probe has settled as a success the healthy set is empty,
\* and every proxied request handled in that time is refused with 503 and
\* counted as failed_no_target, whatever the backends would answer.
C37_NoneBeforeFirstSuccess ==
    /\ [](~MapHas(written.histograms, "proxy_target_response_time") =>
             /\ HealthySet = {}
             /\ getHealthyTargets = <<>>
             /\ ForwardedCount = 0)
    /\ [][\A k \in 0..(RandomResolution - 1) :
             (HandleRequest(k)
                /\ ~MapHas(written.histograms, "proxy_target_response_time")) =>
                 /\ reply' = NoTargetReply
                 /\ selected' = null
                 /\ getCounter("proxy_requests_failed_no_target")'
                        = getCounter("proxy_requests_failed_no_target") + 1]_vars

\* Started, both backends up and both first probes still in flight: the one
\* request handled so far was refused.
C37_Witness ==
    /\ starts = 1 /\ Running
    /\ \A url \in {"A", "B"} : backend[url] = 200 /\ ~HealthHas(url)
    /\ {p.url : p \in inflight} = {"A", "B"}
    /\ ~MapHas(written.histograms, "proxy_target_response_time")
    /\ reply = NoTargetReply
    /\ getCounter("proxy_requests_total") = 1
    /\ getCounter("proxy_requests_failed_no_target") = 1

\* A step of any request: the arrival or the continuation of a proxied
\* request, GET /health, GET /metrics.
RequestStep ==
    \/ \E k \in 0..(RandomResolution - 1) : RequestArrives(k)
    \/ RequestContinues
    \/ HandleHealthEndpoint
    \/ HandleMetricsEndpoint
\* A step of the probe cycle: start, a firing of the timer, a probe settling.
ProbeCycleStep ==
    \/ start
    \/ \E handle \in DOMAIN timers : TimerFires(handle)
    \/ \E p \in inflight : Settles(p)

\* C35: a request step changes no TargetHealth record, no failure count and
\* no openUntil, issues no probe and touches no timer; the health state
\* changes only in steps of the probe cycle; a request never waits for a
\* probe (its arrival and its continuation are enabled with probes in
\* flight) and the target it is given is healthy in the snapshot of its
\* arrival.
C35_RequestsOnlyRead ==
    /\ [][RequestStep =>
             UNCHANGED <<healthStatus, failureCount, circuitBreakerOpenUntil,
                         inflight, lastAttempt, timers, checkInterval, starts>>]_vars
    /\ [][~UNCHANGED checkerVars => ProbeCycleStep]_vars
    /\ [](pending # <<>> => ENABLED RequestContinues)
    /\ [](getCounter("proxy_requests_total") < MaxPipelined =>
             \A k \in 0..(RandomResolution - 1) : ENABLED RequestArrives(k))
    /\ [][\A k \in 0..(RandomResolution - 1) :
             RequestArrives(k) =>
                 /\ selected' \in HealthySet \cup {null}
                 /\ (selected' = null) = (HealthySet = {})]_vars

\* The first probe of B is still in flight and B has no record; A's has
\* settled as a success, and since then a proxied request was handed to A,
\* GET /health reported the one record and GET /metrics the one response time.
C35_Witness ==
    /\ \E p \in inflight : p.url = "B" /\ p.startTime = startedAt
    /\ ~HealthHas("B")
    /\ HealthySet = {"A"}
    /\ reply = Forwarded("A")
    /\ response.statusCode = 200
    /\ response.body.details.total_targets = 1
    /\ exported.statusCode = 200
    /\ "proxy_target_response_time" \in DOMAIN exported.body.histograms

\* The requests whose branch was counted, and the duration samples stored.
BranchCount ==
    getCounter("proxy_requests_failed_no_target")
        + getCounter("proxy_requests_failed_error")
        + getCounter("proxy_requests_by_target.A")
        + getCounter("proxy_requests_by_target.B")
DurationSamples ==
    IF MapHas(histograms, "proxy_request_duration_ms")
    THEN Len(histograms["proxy_request_duration_ms"])
    ELSE 0

\* C39: the branch counters add up to at most proxy_requests_total, and to
\* exactly it when no request is between its arrival and its continuation;
\* an arrival adds one to proxy_requests_total, a continuation adds one
\* branch count and one sample to proxy_request_duration_ms, and GET /health
\* and GET /metrics change no counter and no histogram.
C39_CountersAddUp ==
    /\ [](/\ BranchCount <= getCounter("proxy_requests_total")
          /\ BranchCount + Len(pending) = getCounter("proxy_requests_total")
          /\ (pending = <<>> => BranchCount = getCounter("proxy_requests_total"))
          /\ DurationSamples = BranchCount)
    /\ [][\A k \in 0..(RandomResolution - 1) :
             RequestArrives(k) =>
                 /\ getCounter("proxy_requests_total")'
                        = getCounter("proxy_requests_total") + 1
                 /\ BranchCount' = BranchCount
                 /\ DurationSamples' = DurationSamples]_vars
    /\ [][RequestContinues =>
             /\ getCounter("proxy_requests_total")' = getCounter("proxy_requests_total")
             /\ BranchCount' = BranchCount + 1
             /\ DurationSamples' = DurationSamples + 1]_vars
    /\ [][(HandleHealthEndpoint \/ HandleMetricsEndpoint) =>
             UNCHANGED <<counters, histograms>>]_vars

\* Two requests arrived together, one given A and one given B: both are
\* counted in proxy_requests_total and neither in a branch counter yet.
C39_Witness ==
    /\ Len(pending) = 2
    /\ pending[1].targetUrl = "A" /\ pending[2].targetUrl = "B"
    /\ getCounter("proxy_requests_total") = 2
    /\ BranchCount = 0
    /\ DurationSamples = 0

====
